---------------------------- MODULE Spec2Model ----------------------------
(***************************************************************************)
(* The dispatch and validation layer of src/array/kernel.cc: the tensor    *)
(* contract checks (CheckCtx, CheckContiguous, CheckShape), the sparse     *)
(* format selection and the three-level kernel dispatch of SpMM, SDDMM,    *)
(* SegmentReduce and BackwardSegmentCmp, and GetEdgeMapping.               *)
(*                                                                         *)
(* A call of a registered entry point is one action: it draws its          *)
(* arguments, runs the whole handler and records what the handler did      *)
(* (the error it raised, the format it selected, the adjacency it          *)
(* retrieved, the kernel instantiation it invoked and the buffers that     *)
(* kernel was handed).  Return hands the result back to the caller.        *)
(***************************************************************************)
EXTENDS Integers, Sequences, FiniteSets, TLC

VARIABLES
    graph,      \* the graph handle: static attributes and its format cache
    pc,         \* "idle" or "returned"
    entry,      \* the entry point of the call that returned
    args,       \* its tensor operands, by position name
    params,     \* its scalar parameters (reduce, lhs_target, rhs_target)
    result,     \* "ok" or the error kind the call raised
    format,     \* the tag SelectFormat returned, or "none"
    retrieved,  \* the format of the adjacency retrieved, or "none"
    kernel,     \* the kernel instantiation invoked, or NoKernel
    written,    \* the caller-owned buffers the kernel wrote
    rv          \* the returned array (GetEdgeMapping)

vars == <<graph, pc, entry, args, params, result, format, retrieved, kernel,
          written, rv>>

----------------------------------------------------------------------------
(* Bounds of the model.                                                    *)

\* at most this many attributes of the graph and operands of one call,
\* together, deviate from the plain graph and from a well-formed operand
MaxDeviate == 2

----------------------------------------------------------------------------
(* Value domains.                                                          *)

Devices == {"cpu", "gpu", "ext"}
Formats == {"coo", "csr", "csc"}
csc_code == "csc"
coo_code == "coo"

F16 == [code |-> "float", bits |-> 16]
F32 == [code |-> "float", bits |-> 32]
F64 == [code |-> "float", bits |-> 64]
BF16 == [code |-> "bfloat", bits |-> 16]
I8 == [code |-> "int", bits |-> 8]
I32 == [code |-> "int", bits |-> 32]
I64 == [code |-> "int", bits |-> 64]

NoKernel == [name |-> "none"]
NullPerm == <<>>

\* NullArray(): the sentinel for an absent operand.  IsNullArray is all the
\* code asks of it; its other fields hold whatever the handle carries.
NullArray == [null |-> TRUE, ctx |-> "cpu", contig |-> TRUE, shape |-> <<0>>,
              dtype |-> I64]
NullOther == [null |-> TRUE, ctx |-> "ext", contig |-> FALSE, shape |-> <<0>>,
              dtype |-> F32]

IsNullArray(a) == a.null

Tensor(c, ok, sh, dt) ==
    [null |-> FALSE, ctx |-> c, contig |-> ok, shape |-> sh, dtype |-> dt]

OtherDevice(c) == IF c = "cpu" THEN "gpu" ELSE "cpu"

----------------------------------------------------------------------------
(* The tensor contract checks.  Each returns "ok" or the error of the      *)
(* first operand, in list order, that violates the contract.               *)

RECURSIVE CheckCtxFrom(_, _, _)
CheckCtxFrom(ctx, arrays, i) ==
    IF i > Len(arrays) THEN "ok"
    ELSE IF IsNullArray(arrays[i]) THEN CheckCtxFrom(ctx, arrays, i + 1)
    ELSE IF ctx # arrays[i].ctx THEN "ContextMismatch"
    ELSE CheckCtxFrom(ctx, arrays, i + 1)

CheckCtx(ctx, arrays) == CheckCtxFrom(ctx, arrays, 1)

RECURSIVE CheckContiguousFrom(_, _)
CheckContiguousFrom(arrays, i) ==
    IF i > Len(arrays) THEN "ok"
    ELSE IF IsNullArray(arrays[i]) THEN CheckContiguousFrom(arrays, i + 1)
    ELSE IF ~arrays[i].contig THEN "NotContiguous"
    ELSE CheckContiguousFrom(arrays, i + 1)

CheckContiguous(arrays) == CheckContiguousFrom(arrays, 1)

\* gdim and uev_idx are indexed from 0 in the code: gdim[uev_idx[i]] is
\* gdim[uev_idx[i] + 1] here, and shape[0] is shape[1].
RECURSIVE CheckShapeFrom(_, _, _, _)
CheckShapeFrom(gdim, uev_idx, arrays, i) ==
    IF i > Len(arrays) THEN "ok"
    ELSE IF IsNullArray(arrays[i]) THEN CheckShapeFrom(gdim, uev_idx, arrays, i + 1)
    ELSE IF Len(arrays[i].shape) < 2 THEN "ShapeMismatch"
    ELSE IF gdim[uev_idx[i] + 1] # arrays[i].shape[1] THEN "ShapeMismatch"
    ELSE CheckShapeFrom(gdim, uev_idx, arrays, i + 1)

\* a slip: the leading dimension is compared, the number of dimensions is not
RECURSIVE CheckLeadingFrom(_, _, _, _)
CheckLeadingFrom(gdim, uev_idx, arrays, i) ==
    IF i > Len(arrays) THEN "ok"
    ELSE IF IsNullArray(arrays[i]) THEN CheckLeadingFrom(gdim, uev_idx, arrays, i + 1)
    ELSE IF gdim[uev_idx[i] + 1] # arrays[i].shape[1] THEN "ShapeMismatch"
    ELSE CheckLeadingFrom(gdim, uev_idx, arrays, i + 1)

CheckShapeLeadingOnly(gdim, uev_idx, arrays) ==
    CheckLeadingFrom(gdim, uev_idx, arrays, 1)

CheckShape(gdim, uev_idx, arrays) == CheckShapeFrom(gdim, uev_idx, arrays, 1)

----------------------------------------------------------------------------
(* The graph handle, as kernel.cc consumes it: the counts CheckShape is    *)
(* given, the context and index type the dispatch reads, and the           *)
(* per-format adjacency cache behind SelectFormat and Get*Matrix.          *)

\* {NumVertices(src_vtype), NumEdges(0), NumVertices(dst_vtype)}
PlainGdim == <<1, 2, 3>>
\* the order of the two edges in a format whose physical order differs
\* from the canonical one
Swapped == <<2, 1>>

PlainGraph ==
    [numEtypes |-> 1, ctx |-> "cpu", idtype |-> I32, gdim |-> PlainGdim,
     cached |-> Formats,
     data |-> [f \in Formats |-> IF f = "coo" THEN NullPerm ELSE Swapped]]

AllGraphs ==
    [numEtypes : {1, 2}, ctx : Devices, idtype : {I32, I64, I8},
     gdim : {PlainGdim},
     cached : (SUBSET Formats) \ {{}},
     data : [Formats -> {NullPerm, Swapped}]]

GraphDeviation(g) ==
    Cardinality({k \in {"numEtypes", "ctx", "idtype", "cached"} :
                    g[k] # PlainGraph[k]})
    + Cardinality({f \in Formats : g.data[f] # PlainGraph.data[f]})

Graphs == {g \in AllGraphs : GraphDeviation(g) <= MaxDeviate}

\* The format tag the graph supplies for a preferred format: the preferred
\* one when the graph holds it, otherwise a format the graph already holds.
FirstHeld(g) ==
    IF "coo" \in g.cached THEN "coo"
    ELSE IF "csr" \in g.cached THEN "csr"
    ELSE "csc"

SelectFormat(g, preferred) ==
    IF preferred \in g.cached THEN preferred ELSE FirstHeld(g)

\* The accessors: each returns the adjacency in its format, building and
\* caching it on first demand.  The graph after the call is returned.
GetMatrix(g, f) ==
    IF f \in g.cached THEN g ELSE [g EXCEPT !.cached = @ \cup {f}]

GetCSCMatrix(g) == GetMatrix(g, "csc")
GetCSRMatrix(g) == GetMatrix(g, "csr")
GetCOOMatrix(g) == GetMatrix(g, "coo")

----------------------------------------------------------------------------
(* Broadcast resolution and the dispatch switches.                         *)

FeatDims(a) == Tail(a.shape)

\* trailing-aligned broadcasting over the feature dimensions
CalcBcastOff(lhs, rhs) ==
    IF IsNullArray(lhs) \/ IsNullArray(rhs) THEN "ok"
    ELSE LET l == FeatDims(lhs)
             r == FeatDims(rhs)
             n == IF Len(l) < Len(r) THEN Len(l) ELSE Len(r)
         IN IF \A k \in 1..n :
                   \/ l[Len(l) - k + 1] = r[Len(r) - k + 1]
                   \/ l[Len(l) - k + 1] = 1
                   \/ r[Len(r) - k + 1] = 1
            THEN "ok" ELSE "BroadcastIncompatible"

ATEN_XPU_SWITCH_CUDA(device_type) == device_type \in {"cpu", "gpu"}
ATEN_ID_TYPE_SWITCH(dtype) == dtype.code = "int" /\ dtype.bits \in {32, 64}
ATEN_FLOAT_BITS_SWITCH(dtype) ==
    \/ dtype.code = "float" /\ dtype.bits \in {16, 32, 64}
    \/ dtype.code = "bfloat" /\ dtype.bits = 16

\* Kernel<XPU, IdType, bits>
Instance(name, xpu, idtype, bits) ==
    [name |-> name, xpu |-> xpu, idtype |-> idtype, bits |-> bits]

MinMax == {"max", "min"}
Reduces == {"sum", "max"}

\* the buffers a kernel writes among those it is handed
SpMMWrites(reduce) ==
    {"V"} \cup (IF reduce \in MinMax THEN {"ArgU", "ArgE"} ELSE {})
SegmentReduceWrites(op) ==
    {"out"} \cup (IF op \in MinMax THEN {"arg"} ELSE {})

----------------------------------------------------------------------------
(* What a handler did: the error it raised (or "ok"), the tag selected,    *)
(* the adjacency retrieved, the kernel invoked, the buffers written, the   *)
(* graph after the call and the value returned.                            *)

Outcome(res, fmt, got, k, w, g, ret) ==
    [result |-> res, format |-> fmt, retrieved |-> got, kernel |-> k,
     written |-> w, graph |-> g, rv |-> ret]

Fatal(err, fmt, g) == Outcome(err, fmt, "none", NoKernel, {}, g, NullPerm)

\* a slip: every format that is not COO is run by the CSR-layout kernel
SpMMCsrLayout(reduce, g, ufeat, efeat, out, out_aux) ==
    LET fmt == SelectFormat(g, csc_code)
        bcast == CalcBcastOff(ufeat, efeat)
    IN IF bcast # "ok" THEN Fatal(bcast, fmt, g)
       ELSE IF ~ATEN_XPU_SWITCH_CUDA(g.ctx) THEN Fatal("UnsupportedDispatch", fmt, g)
       ELSE IF ~ATEN_ID_TYPE_SWITCH(g.idtype) THEN Fatal("UnsupportedDispatch", fmt, g)
       ELSE IF ~ATEN_FLOAT_BITS_SWITCH(out.dtype) THEN Fatal("UnsupportedDispatch", fmt, g)
       ELSE IF fmt = "coo"
            THEN Outcome("ok", fmt, "coo",
                         Instance("SpMMCoo", g.ctx, g.idtype, out.dtype),
                         SpMMWrites(reduce), GetCOOMatrix(g), NullPerm)
       ELSE Outcome("ok", fmt, fmt,
                    Instance("SpMMCsr", g.ctx, g.idtype, out.dtype),
                    SpMMWrites(reduce), GetMatrix(g, fmt), NullPerm)

SpMM(reduce, g, ufeat, efeat, out, out_aux) ==
    LET fmt == SelectFormat(g, csc_code)
        bcast == CalcBcastOff(ufeat, efeat)
    IN IF bcast # "ok" THEN Fatal(bcast, fmt, g)
       ELSE IF ~ATEN_XPU_SWITCH_CUDA(g.ctx) THEN Fatal("UnsupportedDispatch", fmt, g)
       ELSE IF ~ATEN_ID_TYPE_SWITCH(g.idtype) THEN Fatal("UnsupportedDispatch", fmt, g)
       ELSE IF ~ATEN_FLOAT_BITS_SWITCH(out.dtype) THEN Fatal("UnsupportedDispatch", fmt, g)
       ELSE IF fmt = "csc"
            THEN Outcome("ok", fmt, "csc",
                         Instance("SpMMCsr", g.ctx, g.idtype, out.dtype),
                         SpMMWrites(reduce), GetCSCMatrix(g), NullPerm)
       ELSE IF fmt = "coo"
            THEN Outcome("ok", fmt, "coo",
                         Instance("SpMMCoo", g.ctx, g.idtype, out.dtype),
                         SpMMWrites(reduce), GetCOOMatrix(g), NullPerm)
       ELSE Fatal("UnsupportedFormat", fmt, g)

SDDMM(g, lhs, rhs, out, lhs_target, rhs_target) ==
    LET fmt == SelectFormat(g, coo_code)
        bcast == CalcBcastOff(lhs, rhs)
    IN IF bcast # "ok" THEN Fatal(bcast, fmt, g)
       ELSE IF ~ATEN_XPU_SWITCH_CUDA(g.ctx) THEN Fatal("UnsupportedDispatch", fmt, g)
       ELSE IF ~ATEN_ID_TYPE_SWITCH(g.idtype) THEN Fatal("UnsupportedDispatch", fmt, g)
       ELSE IF ~ATEN_FLOAT_BITS_SWITCH(out.dtype) THEN Fatal("UnsupportedDispatch", fmt, g)
       ELSE IF fmt = "csr"
            THEN Outcome("ok", fmt, "csr",
                         Instance("SDDMMCsr", g.ctx, g.idtype, out.dtype),
                         {"out"}, GetCSRMatrix(g), NullPerm)
       ELSE IF fmt = "coo"
            THEN Outcome("ok", fmt, "coo",
                         Instance("SDDMMCoo", g.ctx, g.idtype, out.dtype),
                         {"out"}, GetCOOMatrix(g), NullPerm)
       ELSE Fatal("UnsupportedFormat", fmt, g)

\* a slip: the data array of whichever format was selected
GetEdgeMappingAnyFormat(g) ==
    LET fmt == SelectFormat(g, csc_code)
    IN Outcome("ok", fmt, fmt, NoKernel, {}, GetMatrix(g, fmt),
               GetMatrix(g, fmt).data[fmt])

GetEdgeMapping(g) ==
    LET fmt == SelectFormat(g, csc_code)
    IN IF fmt = "csc"
       THEN Outcome("ok", fmt, "csc", NoKernel, {}, GetCSCMatrix(g),
                    GetCSCMatrix(g).data["csc"])
       ELSE Outcome("ok", fmt, "none", NoKernel, {}, g, NullPerm)

\* a slip: the index type is taken from arg, as BackwardSegmentCmp does
SegmentReduceDispatchArgId(op, g, feat, offsets, out, arg) ==
    IF ~ATEN_XPU_SWITCH_CUDA(feat.ctx) THEN Fatal("UnsupportedDispatch", "none", g)
    ELSE IF ~ATEN_ID_TYPE_SWITCH(arg.dtype) THEN Fatal("UnsupportedDispatch", "none", g)
    ELSE IF ~ATEN_FLOAT_BITS_SWITCH(feat.dtype) THEN Fatal("UnsupportedDispatch", "none", g)
    ELSE Outcome("ok", "none", "none",
                 Instance("SegmentReduce", feat.ctx, arg.dtype, feat.dtype),
                 SegmentReduceWrites(op), g, NullPerm)

SegmentReduceDispatch(op, g, feat, offsets, out, arg) ==
    IF ~ATEN_XPU_SWITCH_CUDA(feat.ctx) THEN Fatal("UnsupportedDispatch", "none", g)
    ELSE IF ~ATEN_ID_TYPE_SWITCH(offsets.dtype) THEN Fatal("UnsupportedDispatch", "none", g)
    ELSE IF ~ATEN_FLOAT_BITS_SWITCH(feat.dtype) THEN Fatal("UnsupportedDispatch", "none", g)
    ELSE Outcome("ok", "none", "none",
                 Instance("SegmentReduce", feat.ctx, offsets.dtype, feat.dtype),
                 SegmentReduceWrites(op), g, NullPerm)

BackwardSegmentCmpDispatch(g, feat, arg, out) ==
    IF ~ATEN_XPU_SWITCH_CUDA(feat.ctx) THEN Fatal("UnsupportedDispatch", "none", g)
    ELSE IF ~ATEN_ID_TYPE_SWITCH(arg.dtype) THEN Fatal("UnsupportedDispatch", "none", g)
    ELSE IF ~ATEN_FLOAT_BITS_SWITCH(feat.dtype) THEN Fatal("UnsupportedDispatch", "none", g)
    ELSE Outcome("ok", "none", "none",
                 Instance("BackwardSegmentCmp", feat.ctx, arg.dtype, feat.dtype),
                 {"out"}, g, NullPerm)

----------------------------------------------------------------------------
(* The registered entry points.                                            *)

\* the checks of an entry point that takes a graph: "ok" or the first error
GraphChecks(g, uev_idx, arrays) ==
    LET ctxOk == CheckCtx(g.ctx, arrays)
        contOk == CheckContiguous(arrays)
        shapeOk == CheckShape(g.gdim, uev_idx, arrays)
    IN IF ctxOk # "ok" THEN ctxOk
       ELSE IF contOk # "ok" THEN contOk
       ELSE IF g.numEtypes # 1 THEN "EdgeTypeCount"
       ELSE shapeOk

SpMMChecks(g, U, E, V, ArgU, ArgE) ==
    GraphChecks(g, <<0, 1, 2, 2, 2>>, <<U, E, V, ArgU, ArgE>>)

SDDMMChecks(g, lhs, rhs, out, lhs_target, rhs_target) ==
    GraphChecks(g, <<lhs_target, rhs_target, 1>>, <<lhs, rhs, out>>)

\* a slip: the shapes are checked once the kernel has run
DGLKernelSpMMLateShape(g, reduce_op, U, E, V, ArgU, ArgE) ==
    LET arrays == <<U, E, V, ArgU, ArgE>>
        ctxOk == CheckCtx(g.ctx, arrays)
        contOk == CheckContiguous(arrays)
        shapeOk == CheckShape(g.gdim, <<0, 1, 2, 2, 2>>, arrays)
        o == SpMM(reduce_op, g, U, E, V, <<ArgU, ArgE>>)
    IN IF ctxOk # "ok" THEN Fatal(ctxOk, "none", g)
       ELSE IF contOk # "ok" THEN Fatal(contOk, "none", g)
       ELSE IF g.numEtypes # 1 THEN Fatal("EdgeTypeCount", "none", g)
       ELSE IF o.result = "ok" /\ shapeOk # "ok"
            THEN [o EXCEPT !.result = shapeOk]
       ELSE o

DGLKernelSpMM(g, reduce_op, U, E, V, ArgU, ArgE) ==
    LET checks == SpMMChecks(g, U, E, V, ArgU, ArgE)
    IN IF checks # "ok" THEN Fatal(checks, "none", g)
       ELSE SpMM(reduce_op, g, U, E, V, <<ArgU, ArgE>>)

DGLKernelSDDMM(g, lhs, rhs, out, lhs_target, rhs_target) ==
    LET checks == SDDMMChecks(g, lhs, rhs, out, lhs_target, rhs_target)
    IN IF checks # "ok" THEN Fatal(checks, "none", g)
       ELSE SDDMM(g, lhs, rhs, out, lhs_target, rhs_target)

DGLKernelSegmentReduce(op, g, feat, offsets, out, arg) ==
    LET arrays == <<feat, offsets, out>>
        ctxOk == CheckCtx(feat.ctx, arrays)
        contOk == CheckContiguous(arrays)
    IN IF ctxOk # "ok" THEN Fatal(ctxOk, "none", g)
       ELSE IF contOk # "ok" THEN Fatal(contOk, "none", g)
       ELSE SegmentReduceDispatch(op, g, feat, offsets, out, arg)

DGLKernelBwdSegmentCmp(g, feat, arg, out) ==
    LET arrays == <<feat, arg, out>>
        ctxOk == CheckCtx(feat.ctx, arrays)
        contOk == CheckContiguous(arrays)
    IN IF ctxOk # "ok" THEN Fatal(ctxOk, "none", g)
       ELSE IF contOk # "ok" THEN Fatal(contOk, "none", g)
       ELSE BackwardSegmentCmpDispatch(g, feat, arg, out)

DGLKernelGetEdgeMapping(g) == GetEdgeMapping(g)

----------------------------------------------------------------------------
(* The operands a call is given.  Every position holds a well-formed       *)
(* operand or the null sentinel, except that at most MaxDeviate of the     *)
(* graph's attributes and the call's operands together deviate: another    *)
(* device, not contiguous, a missing feature dimension, another leading    *)
(* dimension, another feature width, another dtype, or a null sentinel     *)
(* whose handle carries other fields.                                      *)

Good(c, n, f, dt) == Tensor(c, TRUE, <<n, f>>, dt)

ShapeVariants(n, f) == {<<n, f>>, <<n>>, <<n + 1, f>>, <<n, 2>>}

Free(c, n, f, dt) == {Good(c, n, f, dt), NullArray}

Deviating(c, n, f, dt, dts) ==
    ({Tensor(x, b, sh, dt) :
        x \in {c, OtherDevice(c)}, b \in BOOLEAN, sh \in ShapeVariants(n, f)}
     \cup {Good(c, n, f, d) : d \in dts}
     \cup {NullOther})
    \ {Good(c, n, f, dt)}

Budget(g) == MaxDeviate - GraphDeviation(g)

DeviatingSets(n, budget) ==
    {D \in SUBSET (1..n) : Cardinality(D) <= budget}

Pick(D, p, c, n, f, dt, dts) ==
    IF p \in D THEN Deviating(c, n, f, dt, dts) ELSE Free(c, n, f, dt)

FloatVariants == {F16, F64, BF16, I32}
IdVariants == {I32, I64, F32}

NoCall ==
    [entry |-> "none", args |-> <<>>, params |-> <<>>, result |-> "none",
     format |-> "none", retrieved |-> "none", kernel |-> NoKernel,
     written |-> {}, rv |-> NullPerm]

Record(name, as, ps, o) ==
    /\ pc' = "returned"
    /\ entry' = name
    /\ args' = as
    /\ params' = ps
    /\ result' = o.result
    /\ format' = o.format
    /\ retrieved' = o.retrieved
    /\ kernel' = o.kernel
    /\ written' = o.written
    /\ rv' = o.rv
    /\ graph' = o.graph

----------------------------------------------------------------------------
(* The actions: one call of each entry point, and its return.              *)

CallSpMM ==
    /\ pc = "idle"
    /\ \E reduce_op \in Reduces, D \in DeviatingSets(5, Budget(graph)) :
        \E U \in Pick(D, 1, graph.ctx, graph.gdim[1], 1, F32, {}),
           E \in Pick(D, 2, graph.ctx, graph.gdim[2], 3, F32, {}),
           V \in Pick(D, 3, graph.ctx, graph.gdim[3], 3, F32, FloatVariants),
           ArgU \in Pick(D, 4, graph.ctx, graph.gdim[3], 3, graph.idtype, {}),
           ArgE \in Pick(D, 5, graph.ctx, graph.gdim[3], 3, graph.idtype, {}) :
            Record("SpMM", <<U, E, V, ArgU, ArgE>>, <<reduce_op>>,
                   DGLKernelSpMM(graph, reduce_op, U, E, V, ArgU, ArgE))

CallSDDMM ==
    /\ pc = "idle"
    /\ \E lhs_target \in 0..2, rhs_target \in 0..2,
          D \in DeviatingSets(3, Budget(graph)) :
        \E lhs \in Pick(D, 1, graph.ctx, graph.gdim[lhs_target + 1], 1, F32, {}),
           rhs \in Pick(D, 2, graph.ctx, graph.gdim[rhs_target + 1], 3, F32, {}),
           out \in Pick(D, 3, graph.ctx, graph.gdim[2], 3, F32, FloatVariants) :
            Record("SDDMM", <<lhs, rhs, out>>, <<lhs_target, rhs_target>>,
                   DGLKernelSDDMM(graph, lhs, rhs, out, lhs_target, rhs_target))

CallSegmentReduce ==
    /\ pc = "idle"
    /\ \E op \in Reduces, D \in DeviatingSets(4, Budget(graph)) :
        \E feat \in Pick(D, 1, graph.ctx, 2, 1, F32, FloatVariants),
           offsets \in Pick(D, 2, graph.ctx, 2, 1, graph.idtype, IdVariants),
           out \in Pick(D, 3, graph.ctx, 1, 1, F32, {}),
           arg \in Pick(D, 4, graph.ctx, 1, 1, graph.idtype, {}) :
            Record("SegmentReduce", <<feat, offsets, out, arg>>, <<op>>,
                   DGLKernelSegmentReduce(op, graph, feat, offsets, out, arg))

CallBwdSegmentCmp ==
    /\ pc = "idle"
    /\ \E D \in DeviatingSets(3, Budget(graph)) :
        \E feat \in Pick(D, 1, graph.ctx, 1, 1, F32, FloatVariants),
           arg \in Pick(D, 2, graph.ctx, 1, 1, graph.idtype, IdVariants),
           out \in Pick(D, 3, graph.ctx, 2, 1, F32, {}) :
            Record("BackwardSegmentCmp", <<feat, arg, out>>, <<>>,
                   DGLKernelBwdSegmentCmp(graph, feat, arg, out))

CallGetEdgeMapping ==
    /\ pc = "idle"
    /\ Record("GetEdgeMapping", <<>>, <<>>, DGLKernelGetEdgeMapping(graph))

Return ==
    /\ pc = "returned"
    /\ pc' = "idle"
    /\ entry' = NoCall.entry
    /\ args' = NoCall.args
    /\ params' = NoCall.params
    /\ result' = NoCall.result
    /\ format' = NoCall.format
    /\ retrieved' = NoCall.retrieved
    /\ kernel' = NoCall.kernel
    /\ written' = NoCall.written
    /\ rv' = NoCall.rv
    /\ UNCHANGED graph

InitCall ==
    /\ pc = "idle"
    /\ entry = NoCall.entry
    /\ args = NoCall.args
    /\ params = NoCall.params
    /\ result = NoCall.result
    /\ format = NoCall.format
    /\ retrieved = NoCall.retrieved
    /\ kernel = NoCall.kernel
    /\ written = NoCall.written
    /\ rv = NoCall.rv

Init ==
    /\ graph \in Graphs
    /\ InitCall

Next ==
    \/ CallSpMM
    \/ CallSDDMM
    \/ CallSegmentReduce
    \/ CallBwdSegmentCmp
    \/ CallGetEdgeMapping
    \/ Return

Spec == Init /\ [][Next]_vars

----------------------------------------------------------------------------
(* Vocabulary of the properties, stated on the recorded call.              *)

Returned == pc = "returned"
KernelEntries == {"SpMM", "SDDMM", "SegmentReduce", "BackwardSegmentCmp"}
GraphEntries == {"SpMM", "SDDMM", "GetEdgeMapping"}
ListedErrors ==
    {"ContextMismatch", "NotContiguous", "ShapeMismatch",
     "BroadcastIncompatible", "UnsupportedFormat", "UnsupportedDispatch"}

Operands == DOMAIN args
Present(i) == ~args[i].null

\* the context every operand is compared with
ReferenceCtx == IF entry \in {"SpMM", "SDDMM"} THEN graph.ctx ELSE args[1].ctx

\* the structural count of each operand's role
RoleCount(i) ==
    IF entry = "SpMM"
    THEN <<graph.gdim[1], graph.gdim[2], graph.gdim[3], graph.gdim[3],
           graph.gdim[3]>>[i]
    ELSE <<graph.gdim[params[1] + 1], graph.gdim[params[2] + 1],
           graph.gdim[2]>>[i]

BadShape(i) ==
    Present(i) /\ (Len(args[i].shape) < 2 \/ args[i].shape[1] # RoleCount(i))

\* the dispatch key of the call: (backend, index type, float precision)
DispatchKey ==
    IF entry \in {"SpMM", "SDDMM"}
    THEN <<graph.ctx, graph.idtype, args[3].dtype>>
    ELSE IF entry = "SegmentReduce"
    THEN <<args[1].ctx, args[2].dtype, args[1].dtype>>
    ELSE <<args[1].ctx, args[2].dtype, args[1].dtype>>

KeyInClosedSet ==
    /\ DispatchKey[1] \in {"cpu", "gpu"}
    /\ DispatchKey[2] \in {I32, I64}
    /\ DispatchKey[3] \in {F16, F32, F64, BF16}

\* the call passed validation and broadcast resolution
ReachedDispatch ==
    result \notin {"ContextMismatch", "NotContiguous", "EdgeTypeCount",
                   "ShapeMismatch", "BroadcastIncompatible"}

EngineFormats ==
    IF entry = "SpMM" THEN {"csc", "coo"}
    ELSE IF entry = "SDDMM" THEN {"csr", "coo"}
    ELSE {"none"}

KernelFor ==
    IF entry = "SpMM" THEN (IF format = "csc" THEN "SpMMCsr" ELSE "SpMMCoo")
    ELSE IF entry = "SDDMM" THEN (IF format = "csr" THEN "SDDMMCsr" ELSE "SDDMMCoo")
    ELSE entry

----------------------------------------------------------------------------
(* C1.  A call of SpMM, SDDMM, SegmentReduce or BackwardSegmentCmp that    *)
(* fails with one of the six listed errors invoked no numeric kernel, and  *)
(* no output or auxiliary buffer was written.                              *)
Thm_C1 ==
    (Returned /\ entry \in KernelEntries /\ result \in ListedErrors)
        => (kernel = NoKernel /\ written = {})

Wit_C1 ==
    /\ Returned /\ entry = "SpMM" /\ result = "ShapeMismatch"
    /\ kernel = NoKernel /\ written = {}

(* C2.  On a call all of whose operands are on the reference context, a    *)
(* non-null operand that is not contiguous, in any position (ArgU, ArgE    *)
(* and arg included), makes the call fail with NotContiguous with no       *)
(* buffer written.                                                         *)
Claim_C2 ==
    (/\ Returned /\ entry \in KernelEntries
     /\ \A i \in Operands : Present(i) => args[i].ctx = ReferenceCtx
     /\ \E i \in Operands : Present(i) /\ ~args[i].contig)
        => (result = "NotContiguous" /\ written = {})

(* C3, as stated.  A call of SpMM or SDDMM fails with ShapeMismatch        *)
(* exactly when some non-null operand has fewer than 2 dimensions or a     *)
(* leading dimension other than the count of its role.                     *)
Claim_C3 ==
    (Returned /\ entry \in {"SpMM", "SDDMM"})
        => (result = "ShapeMismatch" <=> \E i \in Operands : BadShape(i))

(* C3, amended.  A call of SpMM or SDDMM whose non-null operands are all   *)
(* on the graph's context and contiguous, on a graph with one edge type,   *)
(* fails with ShapeMismatch exactly when some non-null operand has fewer   *)
(* than 2 dimensions or a leading dimension other than the count of its    *)
(* role; and no call fails with ShapeMismatch when all shapes match.       *)
Thm_C3 ==
    (Returned /\ entry \in {"SpMM", "SDDMM"})
        => /\ (result = "ShapeMismatch") => \E i \in Operands : BadShape(i)
           /\ (/\ \A i \in Operands :
                    Present(i) => (args[i].ctx = graph.ctx /\ args[i].contig)
               /\ graph.numEtypes = 1
               /\ \E i \in Operands : BadShape(i))
                  => result = "ShapeMismatch"

Wit_C3 ==
    /\ Returned /\ entry = "SDDMM" /\ result = "ShapeMismatch"
    /\ Len(args[3].shape) = 2 /\ args[3].shape[1] # graph.gdim[2]

(* C4.  A call of SpMM with reduce in {max, min} and a null auxiliary      *)
(* buffer, or with another reduce and a non-null auxiliary buffer, does    *)
(* not reach the numeric kernel.                                           *)
Claim_C4 ==
    (/\ Returned /\ entry = "SpMM"
     /\ \/ params[1] \in MinMax /\ (args[4].null \/ args[5].null)
        \/ params[1] \notin MinMax /\ (~args[4].null \/ ~args[5].null))
        => kernel = NoKernel

\* the handler of the recorded entry point, run on other operands
Rerun(as) ==
    IF entry = "SpMM"
    THEN DGLKernelSpMM(graph, params[1], as[1], as[2], as[3], as[4], as[5])
    ELSE IF entry = "SDDMM"
    THEN DGLKernelSDDMM(graph, as[1], as[2], as[3], params[1], params[2])
    ELSE IF entry = "SegmentReduce"
    THEN DGLKernelSegmentReduce(params[1], graph, as[1], as[2], as[3], as[4])
    ELSE DGLKernelBwdSegmentCmp(graph, as[1], as[2], as[3])

\* the same null sentinel, its handle carrying other fields
OtherNull(a) == IF a = NullArray THEN NullOther ELSE NullArray

(* C5.  A null operand is treated as absent by every validation and        *)
(* dispatch step: nothing of a null operand's handle (context, contiguity, *)
(* shape, dtype) is inspected, so the call's outcome is the same whatever  *)
(* those fields hold.                                                      *)
Claim_C5 ==
    (Returned /\ entry \in KernelEntries)
        => \A i \in Operands :
              args[i].null
                 => LET o == Rerun([args EXCEPT ![i] = OtherNull(args[i])])
                    IN o.result = result /\ o.kernel = kernel

(* C6, as stated.  On a call that reaches the dispatch: a dispatch key in  *)
(* {host, accelerator} x {32-bit, 64-bit} x the supported float precisions *)
(* invokes the kernel instantiation whose template parameters equal the    *)
(* key; a key with a component outside the set fails with                  *)
(* UnsupportedDispatch and invokes no kernel.                              *)
Claim_C6 ==
    (Returned /\ entry \in KernelEntries /\ ReachedDispatch)
        => IF KeyInClosedSet
           THEN /\ kernel # NoKernel
                /\ <<kernel.xpu, kernel.idtype, kernel.bits>> = DispatchKey
           ELSE result = "UnsupportedDispatch" /\ kernel = NoKernel

(* C6, amended.  On a call that reaches the dispatch: a key in the closed  *)
(* set invokes exactly the kernel instantiation of the entry point whose   *)
(* template parameters equal the key, provided (SpMM, SDDMM) the selected  *)
(* format is one the engine supports, and otherwise no kernel; a key with  *)
(* a component outside the set fails with UnsupportedDispatch and invokes  *)
(* no kernel.                                                              *)
Thm_C6 ==
    (Returned /\ entry \in KernelEntries /\ ReachedDispatch)
        => IF KeyInClosedSet
           THEN IF format \in EngineFormats
                THEN /\ result = "ok"
                     /\ kernel # NoKernel
                     /\ kernel.name = KernelFor
                     /\ <<kernel.xpu, kernel.idtype, kernel.bits>> = DispatchKey
                ELSE result = "UnsupportedFormat" /\ kernel = NoKernel
           ELSE result = "UnsupportedDispatch" /\ kernel = NoKernel

Wit_C6 ==
    /\ Returned /\ entry = "SegmentReduce" /\ kernel # NoKernel
    /\ kernel.idtype = I64 /\ args[4].dtype = I32

(* C7, as stated.  GetEdgeMapping returns the permutation from canonical   *)
(* to physical edge order of the format the graph supplies, and a null     *)
(* array only when the two orders coincide.                                *)
Claim_C7 ==
    (Returned /\ entry = "GetEdgeMapping") => rv = graph.data[format]

(* C7, amended.  GetEdgeMapping returns the data array of the CSC matrix   *)
(* exactly when the format selected with CSC preference is CSC, and a null *)
(* array for every other selected format, whatever that format's order.    *)
Thm_C7 ==
    (Returned /\ entry = "GetEdgeMapping")
        => /\ format # "none"
           /\ rv = IF format = "csc" THEN graph.data["csc"] ELSE NullPerm
           /\ retrieved = IF format = "csc" THEN "csc" ELSE "none"

Wit_C7 ==
    /\ Returned /\ entry = "GetEdgeMapping" /\ format = "csr"
    /\ graph.data["csr"] # NullPerm /\ rv = NullPerm

(* C8.  SpMM, SDDMM and GetEdgeMapping reject a graph whose number of edge *)
(* types is not 1 before any format selection, adjacency retrieval or      *)
(* kernel invocation.                                                      *)
Claim_C8 ==
    (Returned /\ entry \in GraphEntries /\ graph.numEtypes # 1)
        => /\ result # "ok"
           /\ format = "none" /\ retrieved = "none" /\ kernel = NoKernel

(* C10.  The SpMM kernel runs only against a CSC or COO adjacency and the  *)
(* SDDMM kernel only against a CSR or COO adjacency, retrieved in exactly  *)
(* the format the selector returned; when the selector returns any other   *)
(* format the call fails without retrieving an adjacency and without       *)
(* invoking a kernel.                                                      *)
Thm_C10 ==
    (Returned /\ entry \in {"SpMM", "SDDMM"})
        => /\ (kernel # NoKernel \/ retrieved # "none")
                => /\ format \in EngineFormats
                   /\ retrieved = format
                   /\ kernel.name = KernelFor
           /\ format # "none"
                => format = SelectFormat(graph, IF entry = "SpMM" THEN csc_code
                                                ELSE coo_code)
           /\ (format # "none" /\ format \notin EngineFormats)
                => /\ result \in {"UnsupportedFormat", "UnsupportedDispatch",
                                  "BroadcastIncompatible"}
                   /\ retrieved = "none" /\ kernel = NoKernel

Wit_C10 ==
    /\ Returned /\ entry = "SpMM" /\ format = "csr"
    /\ result = "UnsupportedFormat" /\ retrieved = "none" /\ kernel = NoKernel

=============================================================================
